---- MODULE Spec2Model ----
(***************************************************************************)
(* Model of the S1_processing feature-extraction library.                  *)
(*                                                                         *)
(* The state is the part of the filesystem the library touches (the        *)
(* feature directory, the scratch directory feat_folder/tmp, the artifact  *)
(* files), the number of external engine (SNAP gpt) runs so far, and a     *)
(* record of the last library call.  Every library function is one action. *)
(* Text (basenames, multilook strings) is a sequence of one-token strings, *)
(* so that str.split and int() are computed, not assumed.                  *)
(***************************************************************************)
EXTENDS Integers, Sequences, FiniteSets, TLC

(***************************************************************************)
(* Bounds of the model.                                                    *)
(***************************************************************************)
\* engine runs over the whole behaviour (a run's number tags its files)
MaxRuns == 2
\* length of the multilook strings that are enumerated exhaustively
MaxMLLen == 5
\* fields of the product basenames that are enumerated
MaxFields == 5
\* swathBounds records of an annotation document
MaxRecords == 2
\* files of an annotation folder
MaxFiles == 2
\* engine runs of a session that repeats get_S1_lat_lon
MaxPairRuns == 4
\* bits of the significand of a float32, the type of the rasters
SignificandBits == 24

(***************************************************************************)
(* Text helpers: str.split(sep), int(text).                                *)
(***************************************************************************)
RECURSIVE SplitAcc(_, _, _)
SplitAcc(s, sep, cur) ==
  IF s = <<>> THEN <<cur>>
  ELSE IF Head(s) = sep THEN <<cur>> \o SplitAcc(Tail(s), sep, <<>>)
  ELSE SplitAcc(Tail(s), sep, Append(cur, Head(s)))

\* text.split(sep): the fields between the separators, always at least one
Split(s, sep) == SplitAcc(s, sep, <<>>)

Digits == {"0", "1", "2", "3", "4", "5", "6", "7", "8", "9"}

DigitVal(d) ==
  CASE d = "0" -> 0 [] d = "1" -> 1 [] d = "2" -> 2 [] d = "3" -> 3 [] d = "4" -> 4
    [] d = "5" -> 5 [] d = "6" -> 6 [] d = "7" -> 7 [] d = "8" -> 8 [] d = "9" -> 9

RECURSIVE DigitsVal(_, _)
DigitsVal(s, acc) ==
  IF s = <<>> THEN acc ELSE DigitsVal(Tail(s), 10 * acc + DigitVal(Head(s)))

AllDigits(s) == s # <<>> /\ \A i \in 1..Len(s) : s[i] \in Digits

\* int(text) raises ValueError unless text is an optional sign and digits
IntOk(s) ==
  \/ AllDigits(s)
  \/ s # <<>> /\ Head(s) \in {"-", "+"} /\ AllDigits(Tail(s))

IntVal(s) ==
  IF Head(s) = "-" THEN 0 - DigitsVal(Tail(s), 0)
  ELSE IF Head(s) = "+" THEN DigitsVal(Tail(s), 0)
  ELSE DigitsVal(s, 0)

(***************************************************************************)
(* S1_product_info.get_S1_product_info: mode, type and polarisations from  *)
(* the basename MISSION_MODE_TYPE_POLCODE_...; Empty stands for Python's   *)
(* empty list, returned in all three places on any failure.                *)
(***************************************************************************)
Empty == <<>>

NoInfo == [mode |-> Empty, type |-> Empty, pols |-> Empty]

\* a bug: the acquisition mode is not looked at
get_S1_product_info_anyMode(f_base) ==
  LET fields == Split(f_base, "_") IN
  IF Len(fields) < 4 \/ fields[4] \notin {<<"1SDH">>, <<"1SSH">>, <<"1SDV">>, <<"1SSV">>}
  THEN NoInfo
  ELSE [mode |-> fields[2], type |-> fields[3],
        pols |-> CASE fields[4] = <<"1SDH">> -> <<"HH", "HV">>
                   [] fields[4] = <<"1SSH">> -> <<"HH">>
                   [] fields[4] = <<"1SDV">> -> <<"VV", "VH">>
                   [] fields[4] = <<"1SSV">> -> <<"VV">>]

get_S1_product_info(f_base) ==
  LET fields == Split(f_base, "_") IN
  IF Len(fields) < 4 THEN NoInfo
  ELSE
    LET product_mode == fields[2]
        product_type == fields[3]
        product_pol  == fields[4]
    IN
    IF product_pol \notin {<<"1SDH">>, <<"1SSH">>, <<"1SDV">>, <<"1SSV">>}
    THEN NoInfo
    ELSE IF product_mode \notin {<<"SM">>, <<"IW">>, <<"EW">>, <<"WV">>}
    THEN NoInfo
    ELSE [mode |-> product_mode,
          type |-> product_type,
          pols |-> CASE product_pol = <<"1SDH">> -> <<"HH", "HV">>
                     [] product_pol = <<"1SSH">> -> <<"HH">>
                     [] product_pol = <<"1SDV">> -> <<"VV", "VH">>
                     [] product_pol = <<"1SSV">> -> <<"VV">>]

\* x in p_pol
InPols(x, pols) == \E i \in 1..Len(pols) : pols[i] = x

(***************************************************************************)
(* S1_processing_config: the registry of SNAP graph files.  A name is the  *)
(* sequence of its '_'-separated parts after the prefix snap_S1.           *)
(***************************************************************************)
GraphRegistry ==
  { <<"EW", "GRDM", "NR", "Cal", "Spk", "XX">>,
    <<"EW", "GRDM", "NR", "Cal", "Spk", "db", "XX">>,
    <<"EW", "GRDM", "NR", "Cal", "XX">>,
    <<"EW", "GRDM", "NR", "Cal", "db", "XX">>,
    <<"EW", "GRDH", "NR", "Cal", "Spk", "XX">>,
    <<"EW", "GRDH", "NR", "Cal", "Spk", "db", "XX">>,
    <<"EW", "GRDH", "NR", "Cal", "XX">>,
    <<"EW", "GRDH", "NR", "Cal", "db", "XX">>,
    <<"IW", "GRDH", "NR", "Cal", "Spk", "XX">>,
    <<"IW", "GRDH", "NR", "Cal", "Spk", "db", "XX">>,
    <<"IW", "GRDH", "NR", "Cal", "XX">>,
    <<"IW", "GRDH", "NR", "Cal", "db", "XX">> }

\* a bug: the speckle filter is chosen from three looks on
snap_graph_string_wide(p_mode, p_type, looks_rg, dB) ==
  p_mode \o p_type \o <<"NR", "Cal">>
    \o (IF looks_rg > 3 THEN <<"Spk">> ELSE <<>>)
    \o (IF dB THEN <<"dB">> ELSE <<>>)
    \o <<"XX">>

\* snap_graph_string of get_S1_intensity, as the parts of the attribute name
snap_graph_string(p_mode, p_type, looks_rg, dB) ==
  p_mode \o p_type \o <<"NR", "Cal">>
    \o (IF looks_rg > 1 THEN <<"Spk">> ELSE <<>>)
    \o (IF dB THEN <<"dB">> ELSE <<>>)
    \o <<"XX">>

\* eval(snap_graph_string) succeeds iff the module has that attribute
GraphRegistered(key) == key \in GraphRegistry

(***************************************************************************)
(* The filesystem.  A file is 0 when absent, else the number of the engine *)
(* run that wrote it.                                                      *)
(***************************************************************************)
ValidIntensities == {"HH", "HV", "VH", "VV"}

\* outfile_basename of get_S1_intensity
IntensityBase(intensity, dB) == "Sigma0_" \o intensity \o (IF dB THEN "_dB" ELSE "")

EngineArtifacts ==
  {IntensityBase(p, d) : p \in ValidIntensities, d \in BOOLEAN} \cup {"IA", "lat", "lon"}

NoFile == [img |-> 0, hdr |-> 0]

\* contents of feat_folder/tmp/tmp.data: the outputs of one engine run
NoData == [base |-> "", img |-> 0, hdr |-> 0]

EmptyFS ==
  [featDir   |-> FALSE,
   tmpDir    |-> FALSE,
   tmpData   |-> NoData,
   feat      |-> [a \in EngineArtifacts |-> NoFile],
   swath     |-> [img |-> FALSE, hdr |-> FALSE],
   tif       |-> FALSE,
   tifs      |-> {},
   parentTmp |-> FALSE,
   resultDir |-> FALSE,
   rgb       |-> FALSE]

\* a bug: the header path is tested instead of the data path
IsFile_hdr(s, base) == base \in DOMAIN s.feat /\ s.feat[base].hdr # 0

\* img_path.is_file()
IsFile(s, base) == base \in DOMAIN s.feat /\ s.feat[base].img # 0

\* a bug: a stale tmp_folder is kept and used again
PrepareScratch_reuse(s) == [s EXCEPT !.featDir = TRUE, !.tmpDir = TRUE]

\* feat_folder.mkdir(parents=True, exist_ok=True); rmtree of a stale
\* tmp_folder; tmp_folder.mkdir(exist_ok=False)
PrepareScratch(s) ==
  [s EXCEPT !.featDir = TRUE, !.tmpDir = TRUE, !.tmpData = NoData]

\* shutil.rmtree(tmp_folder)
RmTree(s) == [s EXCEPT !.tmpDir = FALSE, !.tmpData = NoData]

\* tmp_folder.mkdir(exist_ok=False) after the rmtree
MkTmp(s) == [s EXCEPT !.tmpDir = TRUE, !.tmpData = NoData]

EngineOutcomes == {"both", "img", "hdr", "none"}

\* os.system(snap_cmd): the engine writes {base}.img/.hdr under tmp.data, or
\* only one of them, or nothing; its exit status is not looked at.  What it
\* does not write stays as it was.
RunEngine(s, base, outcome, run) ==
  LET old(kind) == IF s.tmpData.base = base THEN s.tmpData[kind] ELSE 0 IN
  [s EXCEPT !.tmpData =
     IF outcome = "none" THEN s.tmpData
     ELSE [base |-> base,
           img  |-> IF outcome \in {"both", "img"} THEN run ELSE old("img"),
           hdr  |-> IF outcome \in {"both", "hdr"} THEN run ELSE old("hdr")]]

\* shutil.copyfile(tmp_folder/'tmp.data'/src, dst) raises FileNotFoundError
\* when the source is missing
CanCopy(s, src, kind) ==
  s.tmpDir /\ s.tmpData.base = src /\ s.tmpData[kind] # 0

CopyFile(s, src, kind, dst) ==
  [s EXCEPT !.feat[dst][kind] = s.tmpData[kind]]

(***************************************************************************)
(* The staged operations.  Each returns the filesystem it leaves, the      *)
(* engine-run counter, what it returned ("True", "False", "None", or       *)
(* "raise" for an uncaught exception), the message that ended it, the      *)
(* number of engine invocations it made and whether it created or removed  *)
(* the scratch directory.                                                  *)
(***************************************************************************)
Res(s, runs, ret, why, nEngine, tmpOps) ==
  [fs |-> s, runs |-> runs, ret |-> ret, why |-> why,
   nEngine |-> nEngine, tmpOps |-> tmpOps]

\* what each operation returns after a completed production: its last
\* statement is "return True", or the function ends without a return
CompletedValue(op) ==
  CASE op = "get_S1_intensity" -> "True"
    [] op = "get_S1_IA" -> "True"
    [] op = "get_S1_lat_lon" -> "None"
    [] op = "get_S1_swath_mask" -> "True"
    [] op = "get_full_S1_swath_mask" -> "None"
    [] op = "make_S1_rgb" -> "None"

\* a bug: the negation of overwrite is lost
SkipDecision_lostNot(exists, overwrite) == exists /\ overwrite

\* if img_path.is_file() and not overwrite
SkipDecision(exists, overwrite) == exists /\ ~overwrite

\* a bug: the dry-run flag is not looked at
DryRun_ignored(a) == FALSE

\* if dry_run
DryRun(a) == a.dry_run

\* a bug: the engine executable is not looked for
GptMissing_unchecked(a) == FALSE

\* if not os.path.exists(GPT)
GptMissing(a) == ~a.gptExists

\* if not snap_graph_path.is_file()
GraphMissing(exists) == ~exists

\* the try block around int(ML.split('x')[0]), int(ML.split('x')[1])
MLParses(ML) ==
  LET parts == Split(ML, "x") IN
  Len(parts) >= 2 /\ IntOk(parts[1]) /\ IntOk(parts[2])

looks_rg(ML) == IntVal(Split(ML, "x")[1])
looks_az(ML) == IntVal(Split(ML, "x")[2])

\* if looks_rg%2==0 or looks_az%2==0
MLEven(ML) == looks_rg(ML) % 2 = 0 \/ looks_az(ML) % 2 = 0

\* look_str, dB_str, snap_graph_string and the eval of get_S1_intensity
select_snap_graph(a) ==
  LET info == get_S1_product_info(a.product.stem)
      key  == snap_graph_string(info.mode, info.type, looks_rg(a.ML), a.dB)
  IN [key |-> key, found |-> GraphRegistered(key)]

\* a bug: the looks are passed whatever their value
snap_cmd_looks(a) ==
  [graph  |-> select_snap_graph(a).key,
   params |-> <<"inFile", "outFile", "polarization", "looks_rg", "looks_az">>]

\* a bug: azimuth looks alone make the looks parameters be passed
snap_cmd_az(a) ==
  [graph  |-> select_snap_graph(a).key,
   params |-> <<"inFile", "outFile", "polarization">>
                \o (IF looks_rg(a.ML) > 1 \/ looks_az(a.ML) > 1
                      THEN <<"looks_rg", "looks_az">> ELSE <<>>)]

\* snap_cmd of get_S1_intensity: the graph and the -P parameters given to it
snap_cmd(a) ==
  [graph  |-> select_snap_graph(a).key,
   params |-> <<"inFile", "outFile", "polarization">>
                \o (IF looks_rg(a.ML) > 1 THEN <<"looks_rg", "looks_az">> ELSE <<>>)]

\* os.system, the two copyfile calls, rmtree and the final return of
\* get_S1_intensity and get_S1_IA
RunAndCopy(s, runs, src, dst, outcome, ret) ==
  LET run == runs + 1
      s1  == RunEngine(s, src, outcome, run)
  IN
  IF ~CanCopy(s1, src, "img") THEN Res(s1, run, "raise", "copy_img_failed", 1, TRUE)
  ELSE
    LET s2 == CopyFile(s1, src, "img", dst) IN
    IF ~CanCopy(s2, src, "hdr") THEN Res(s2, run, "raise", "copy_hdr_failed", 1, TRUE)
    ELSE Res(RmTree(CopyFile(s2, src, "hdr", dst)), run, ret, "done", 1, TRUE)

get_S1_intensity(s, runs, a, outcome) ==
  LET info == get_S1_product_info(a.product.stem)
      base == IntensityBase(a.intensity, a.dB)
  IN
  IF a.intensity \notin ValidIntensities THEN Res(s, runs, "False", "bad_intensity", 0, FALSE)
  ELSE IF GptMissing(a) THEN Res(s, runs, "False", "no_gpt", 0, FALSE)
  ELSE IF ~a.prodExists THEN Res(s, runs, "False", "no_product", 0, FALSE)
  ELSE IF ~InPols(a.intensity, info.pols) THEN Res(s, runs, "False", "no_polarisation", 0, FALSE)
  ELSE IF a.product.suffix \notin {"SAFE", "zip"} THEN Res(s, runs, "False", "bad_file_type", 0, FALSE)
  ELSE IF SkipDecision(IsFile(s, base), a.overwrite) THEN Res(s, runs, "True", "skip", 0, FALSE)
  ELSE
    LET s1 == PrepareScratch(s) IN
    IF ~MLParses(a.ML) THEN Res(s1, runs, "False", "ml_malformed", 0, TRUE)
    ELSE IF MLEven(a.ML) THEN Res(s1, runs, "False", "ml_even", 0, TRUE)
    ELSE IF ~GraphRegistered(snap_graph_string(info.mode, info.type, looks_rg(a.ML), a.dB))
      THEN Res(s1, runs, "False", "not_implemented", 0, TRUE)
    ELSE IF GraphMissing(a.graph1) THEN Res(s1, runs, "False", "no_graph", 0, TRUE)
    ELSE IF DryRun(a) THEN Res(RmTree(s1), runs, "True", "dry_run", 0, TRUE)
    ELSE RunAndCopy(s1, runs, base, base, outcome, CompletedValue("get_S1_intensity"))

get_S1_IA(s, runs, a, outcome) ==
  IF GptMissing(a) THEN Res(s, runs, "False", "no_gpt", 0, FALSE)
  ELSE IF ~a.prodExists THEN Res(s, runs, "False", "no_product", 0, FALSE)
  ELSE IF a.product.suffix \notin {"SAFE", "zip"} THEN Res(s, runs, "False", "bad_file_type", 0, FALSE)
  ELSE IF SkipDecision(IsFile(s, "IA"), a.overwrite) THEN Res(s, runs, "True", "skip", 0, FALSE)
  ELSE
    LET s1 == PrepareScratch(s) IN
    IF GraphMissing(a.graph1) THEN Res(s1, runs, "False", "no_graph", 0, TRUE)
    ELSE IF DryRun(a) THEN Res(RmTree(s1), runs, "True", "dry_run", 0, TRUE)
    ELSE RunAndCopy(s1, runs, "incAngle", "IA", outcome, CompletedValue("get_S1_IA"))

\* a bug: one of the two files is enough to skip
PairExists_either(s) == IsFile(s, "lat") \/ IsFile(s, "lon")

\* img_path_1.is_file() and img_path_2.is_file()
PairExists(s) == IsFile(s, "lat") /\ IsFile(s, "lon")

get_S1_lat_lon(s, runs, a, outcome1, outcome2) ==
  IF GptMissing(a) THEN Res(s, runs, "False", "no_gpt", 0, FALSE)
  ELSE IF ~a.prodExists THEN Res(s, runs, "False", "no_product", 0, FALSE)
  ELSE IF a.product.suffix \notin {"SAFE", "zip"} THEN Res(s, runs, "False", "bad_file_type", 0, FALSE)
  ELSE IF SkipDecision(PairExists(s), a.overwrite)
    THEN Res(s, runs, "None", "skip", 0, FALSE)
  ELSE
    LET s1 == PrepareScratch(s) IN
    IF GraphMissing(a.graph1) \/ GraphMissing(a.graph2)
      THEN Res(s1, runs, "raise", "no_graph", 0, TRUE)
    ELSE IF DryRun(a) THEN Res(RmTree(s1), runs, "None", "dry_run", 0, TRUE)
    ELSE
      LET r1 == RunAndCopy(s1, runs, "lat", "lat", outcome1, CompletedValue("get_S1_lat_lon")) IN
      IF r1.why # "done" THEN r1
      ELSE
        LET r2 == RunAndCopy(MkTmp(r1.fs), r1.runs, "lon", "lon", outcome2, CompletedValue("get_S1_lat_lon")) IN
        [r2 EXCEPT !.nEngine = 2]

(***************************************************************************)
(* The native operations: the two swath-mask writers and the compositor.   *)
(* A zip product is described by what its name list holds.                 *)
(***************************************************************************)
get_S1_swath_mask(s, runs, a) ==
  LET info == get_S1_product_info(a.product.stem) IN
  IF ~a.prodExists THEN Res(s, runs, "False", "no_product", 0, FALSE)
  ELSE IF a.product.suffix \notin {"SAFE", "zip"} THEN Res(s, runs, "False", "bad_file_type", 0, FALSE)
  ELSE IF SkipDecision(s.swath.img, a.overwrite) THEN Res(s, runs, "True", "skip", 0, FALSE)
  ELSE
    LET s1 == [s EXCEPT !.featDir = TRUE] IN
    IF a.product.suffix = "SAFE"
      \* annotation_path is bound on the zip branch only
      THEN Res(s1, runs, "raise", "unbound_annotation_path", 0, FALSE)
    ELSE
      \* tmp_folder = feat_folder.parent / 'tmp'
      LET s2 == [s1 EXCEPT !.parentTmp = TRUE] IN
      IF a.annotationInZip /\ info.pols = Empty
        THEN Res(s2, runs, "raise", "index_error", 0, FALSE)
      ELSE IF ~a.annotationInZip THEN Res(s2, runs, "False", "no_annotation_in_zip", 0, FALSE)
      ELSE IF ~a.manifestInZip THEN Res(s2, runs, "False", "no_manifest_in_zip", 0, FALSE)
      ELSE IF info.mode \notin {<<"EW">>, <<"IW">>}
        THEN Res(s2, runs, "False", "mode_not_implemented", 0, FALSE)
      ELSE IF s2.swath.img /\ a.overwrite /\ ~s2.swath.hdr
        \* os.remove of the missing header
        THEN Res([s2 EXCEPT !.swath.img = FALSE], runs, "raise", "remove_failed", 0, FALSE)
      ELSE Res([s2 EXCEPT !.swath = [img |-> TRUE, hdr |-> TRUE], !.parentTmp = FALSE],
               runs, CompletedValue("get_S1_swath_mask"), "done", 0, FALSE)

get_full_S1_swath_mask(s, runs, a) ==
  LET info == get_S1_product_info(a.product.stem) IN
  \* safe_folder.is_dir()
  IF ~(a.prodExists /\ a.product.suffix = "SAFE")
    THEN Res(s, runs, "raise", "no_product", 0, FALSE)
  ELSE IF SkipDecision(s.tif, a.overwrite) THEN Res(s, runs, "None", "skip", 0, FALSE)
  ELSE
    LET s1 == [s EXCEPT !.featDir = TRUE] IN
    \* p_pol[0], then glob(...)[0]
    IF info.pols = Empty \/ ~a.annotationInZip
      THEN Res(s1, runs, "raise", "index_error", 0, FALSE)
    ELSE Res([s1 EXCEPT !.tif = TRUE], runs,
             CompletedValue("get_full_S1_swath_mask"), "done", 0, FALSE)

make_S1_rgb(s, runs, a) ==
  IF ~s.featDir THEN Res(s, runs, "raise", "no_feat_folder", 0, FALSE)
  ELSE IF SkipDecision(s.rgb, a.overwrite) THEN Res(s, runs, "True", "skip", 0, FALSE)
  ELSE
    LET s1 == [s EXCEPT !.resultDir = TRUE] IN
    IF ~IsFile(s1, "Sigma0_HH") THEN Res(s1, runs, "raise", "no_HH", 0, FALSE)
    ELSE IF ~IsFile(s1, "Sigma0_HV") THEN Res(s1, runs, "raise", "no_HV", 0, FALSE)
    ELSE IF ~a.sameShape THEN Res(s1, runs, "raise", "shape_mismatch", 0, FALSE)
    ELSE Res([s1 EXCEPT !.rgb = TRUE], runs, CompletedValue("make_S1_rgb"), "done", 0, FALSE)

(***************************************************************************)
(* Inputs.  A call is drawn with every combination of its own switches in  *)
(* a sound environment, and with each single fault of the environment or   *)
(* of the arguments.                                                       *)
(***************************************************************************)
Name(mode, type, pol) ==
  <<"S1A", "_", mode, "_", type, "_", pol, "_", "20200101T000000">>

Product(mode, type, pol, suffix) == [stem |-> Name(mode, type, pol), suffix |-> suffix]

EW_SAFE  == Product("EW", "GRDM", "1SDH", "SAFE")
EW_ZIP   == Product("EW", "GRDM", "1SDH", "zip")
SM_SAFE  == Product("SM", "GRDH", "1SSH", "SAFE")
SM_ZIP   == Product("SM", "GRDH", "1SSH", "zip")
BAD_SAFE == Product("EW", "GRDM", "XXXX", "SAFE")
BAD_ZIP  == Product("EW", "GRDM", "XXXX", "zip")
EW_TIF   == Product("EW", "GRDM", "1SDH", "tif")

ML_1x1 == <<"1", "x", "1">>
ML_3x3 == <<"3", "x", "3">>
ML_2x1 == <<"2", "x", "1">>
ML_bad == <<"a">>

SoundArgs ==
  [product : {EW_SAFE}, prodExists : {TRUE}, gptExists : {TRUE},
   intensity : {"HH", "HV"}, ML : {ML_1x1, ML_3x3}, dB : BOOLEAN,
   overwrite : BOOLEAN, dry_run : BOOLEAN, graph1 : {TRUE}, graph2 : {TRUE}]

\* the faults of get_S1_intensity, one at a time
IntensityFaults(a) ==
  { [a EXCEPT !.intensity = "XX"],
    [a EXCEPT !.gptExists = FALSE],
    [a EXCEPT !.prodExists = FALSE],
    [a EXCEPT !.product = SM_SAFE],
    [a EXCEPT !.product = BAD_SAFE],
    [a EXCEPT !.product = EW_TIF],
    [a EXCEPT !.ML = ML_2x1],
    [a EXCEPT !.ML = ML_bad],
    [a EXCEPT !.graph1 = FALSE] }

\* the faulty calls are real runs of a linear request for HH at 1x1, with
\* overwrite on and off
FaultBase ==
  {a \in SoundArgs : a.intensity = "HH" /\ a.ML = ML_1x1 /\ ~a.dB /\ ~a.dry_run}

IntensityArgs == SoundArgs \cup UNION {IntensityFaults(a) : a \in FaultBase}

\* get_S1_IA and get_S1_lat_lon take the product, the engine and the flags
MetaSound ==
  {a \in SoundArgs : a.intensity = "HH" /\ a.ML = ML_1x1 /\ ~a.dB}

MetaFaults(a) ==
  { [a EXCEPT !.gptExists = FALSE],
    [a EXCEPT !.prodExists = FALSE],
    [a EXCEPT !.product = BAD_SAFE],
    [a EXCEPT !.product = EW_TIF],
    [a EXCEPT !.graph1 = FALSE] }

MetaFaultBase == {a \in MetaSound : ~a.dry_run}

IAArgs == MetaSound \cup UNION {MetaFaults(a) : a \in MetaFaultBase}

LatLonArgs == IAArgs \cup {[a EXCEPT !.graph2 = FALSE] : a \in MetaFaultBase}

\* the native operations: any product, and one fault of what it holds
NativeSound ==
  [product : {EW_SAFE, EW_ZIP, SM_ZIP, BAD_SAFE, BAD_ZIP, EW_TIF},
   prodExists : {TRUE}, overwrite : BOOLEAN,
   annotationInZip : {TRUE}, manifestInZip : {TRUE}, sameShape : {TRUE}]

\* a fault is drawn on the requests that get to read it
ZipSound == {a \in NativeSound : a.product.suffix = "zip"}

SafeSound == {a \in NativeSound : a.product = EW_SAFE}

SwathArgs ==
  NativeSound
    \cup {[a EXCEPT !.prodExists = FALSE] : a \in SafeSound}
    \cup {[a EXCEPT !.annotationInZip = FALSE] : a \in ZipSound}
    \cup {[a EXCEPT !.manifestInZip = FALSE] : a \in ZipSound}

FullSwathArgs ==
  NativeSound
    \cup {[a EXCEPT !.prodExists = FALSE] : a \in SafeSound}
    \cup {[a EXCEPT !.annotationInZip = FALSE] : a \in SafeSound}

RgbArgs == SafeSound \cup {[a EXCEPT !.sameShape = FALSE] : a \in SafeSound}

(***************************************************************************)
(* State.                                                                  *)
(***************************************************************************)
VARIABLES
  fs,           \* the filesystem
  engineCalls,  \* engine runs so far
  last,         \* the last call: what was asked and how it ended
  pinned        \* the call a session repeats, <<>> when calls are free

vars == <<fs, engineCalls, last, pinned>>

NoCall ==
  [op |-> "none", present |-> FALSE, overwrite |-> FALSE, dry |-> FALSE,
   ret |-> "", why |-> "", nEngine |-> 0, tmpOps |-> FALSE,
   args |-> <<>>, eng |-> <<>>, cmd |-> <<>>]

\* whether the data file(s) the operation produces exist in s
HasImg(s, base) == base \in DOMAIN s.feat /\ s.feat[base].img # 0

TargetPresent(s, op, a) ==
  CASE op = "get_S1_intensity" -> HasImg(s, IntensityBase(a.intensity, a.dB))
    [] op = "get_S1_IA" -> HasImg(s, "IA")
    [] op = "get_S1_lat_lon" -> HasImg(s, "lat") /\ HasImg(s, "lon")
    [] op = "get_S1_swath_mask" -> s.swath.img
    [] op = "get_full_S1_swath_mask" -> s.tif
    [] op = "make_S1_rgb" -> s.rgb

\* the call ends: the filesystem and the counter are as the operation left
\* them, and last records the request (was the target there, the overwrite
\* and dry-run flags), the outcome, the arguments of a dry run or of a call
\* that reached the engine, what the engine did, and the command that
\* get_S1_intensity gave it
Finish(op, a, r, outcomes) ==
  LET dry_run == IF "dry_run" \in DOMAIN a THEN a.dry_run ELSE FALSE IN
  /\ r.runs <= MaxRuns
  /\ fs' = r.fs
  /\ engineCalls' = r.runs
  /\ last' = [op |-> op, present |-> TargetPresent(fs, op, a),
              overwrite |-> a.overwrite,
              dry |-> dry_run,
              ret |-> r.ret, why |-> r.why,
              nEngine |-> r.nEngine, tmpOps |-> r.tmpOps,
              args |-> IF r.nEngine > 0 \/ dry_run THEN <<a>> ELSE <<>>,
              eng  |-> IF r.nEngine > 0 THEN SubSeq(outcomes, 1, r.nEngine) ELSE <<>>,
              cmd  |-> IF op = "get_S1_intensity" /\ r.nEngine > 0
                         THEN <<snap_cmd(a)>> ELSE <<>>]

Init ==
  /\ fs = EmptyFS
  /\ engineCalls = 0
  /\ last = NoCall
  /\ pinned = <<>>

\* what the engine does matters only in a call that reaches it
Outcomes1(r) == IF r.nEngine = 0 THEN {"both"} ELSE EngineOutcomes
Outcomes2(r) == IF r.nEngine < 2 THEN {"both"} ELSE EngineOutcomes

Call_get_S1_intensity ==
  /\ pinned = <<>>
  /\ UNCHANGED pinned
  /\ last = NoCall
  /\ \E a \in IntensityArgs :
    \E e \in Outcomes1(get_S1_intensity(fs, engineCalls, a, "both")) :
      Finish("get_S1_intensity", a, get_S1_intensity(fs, engineCalls, a, e), <<e>>)

Call_get_S1_IA ==
  /\ pinned = <<>>
  /\ UNCHANGED pinned
  /\ last = NoCall
  /\ \E a \in IAArgs :
    \E e \in Outcomes1(get_S1_IA(fs, engineCalls, a, "both")) :
      Finish("get_S1_IA", a, get_S1_IA(fs, engineCalls, a, e), <<e>>)

Call_get_S1_lat_lon ==
  /\ pinned = <<>>
  /\ UNCHANGED pinned
  /\ last = NoCall
  /\ \E a \in LatLonArgs :
    \E e1 \in Outcomes1(get_S1_lat_lon(fs, engineCalls, a, "both", "both")) :
      \E e2 \in Outcomes2(get_S1_lat_lon(fs, engineCalls, a, e1, "both")) :
        Finish("get_S1_lat_lon", a, get_S1_lat_lon(fs, engineCalls, a, e1, e2), <<e1, e2>>)

Call_get_S1_swath_mask ==
  /\ pinned = <<>>
  /\ UNCHANGED pinned
  /\ last = NoCall
  /\ \E a \in SwathArgs :
    Finish("get_S1_swath_mask", a, get_S1_swath_mask(fs, engineCalls, a), <<>>)

Call_get_full_S1_swath_mask ==
  /\ pinned = <<>>
  /\ UNCHANGED pinned
  /\ last = NoCall
  /\ \E a \in FullSwathArgs :
    Finish("get_full_S1_swath_mask", a, get_full_S1_swath_mask(fs, engineCalls, a), <<>>)

Call_make_S1_rgb ==
  /\ pinned = <<>>
  /\ UNCHANGED pinned
  /\ last = NoCall
  /\ \E a \in RgbArgs :
    Finish("make_S1_rgb", a, make_S1_rgb(fs, engineCalls, a), <<>>)

\* the calling script drops the returned value and goes on to its next call
CallerContinues ==
  /\ pinned = <<>>
  /\ last # NoCall
  /\ last' = NoCall
  /\ UNCHANGED <<fs, engineCalls, pinned>>

Next ==
  \/ Call_get_S1_intensity
  \/ Call_get_S1_IA
  \/ Call_get_S1_lat_lon
  \/ Call_get_S1_swath_mask
  \/ Call_get_full_S1_swath_mask
  \/ Call_make_S1_rgb
  \/ CallerContinues

Spec == Init /\ [][Next]_vars

(***************************************************************************)
(* A session that repeats one call: the arguments are fixed at the start   *)
(* and the same operation is invoked with them again and again.            *)
(***************************************************************************)
PinnedCalls ==
  {<<[op |-> "get_S1_intensity", a |-> a]>> : a \in IntensityArgs}
    \cup {<<[op |-> "get_S1_IA", a |-> a]>> : a \in IAArgs}
    \cup {<<[op |-> "get_S1_lat_lon", a |-> a]>> : a \in LatLonArgs}

InitRepeat ==
  /\ fs = EmptyFS
  /\ engineCalls = 0
  /\ last = NoCall
  /\ pinned \in PinnedCalls

Reinvoke_get_S1_intensity ==
  /\ pinned # <<>>
  /\ pinned[1].op = "get_S1_intensity"
  /\ UNCHANGED pinned
  /\ LET a == pinned[1].a IN
     \E e \in Outcomes1(get_S1_intensity(fs, engineCalls, a, "both")) :
       Finish("get_S1_intensity", a, get_S1_intensity(fs, engineCalls, a, e), <<e>>)

Reinvoke_get_S1_IA ==
  /\ pinned # <<>>
  /\ pinned[1].op = "get_S1_IA"
  /\ UNCHANGED pinned
  /\ LET a == pinned[1].a IN
     \E e \in Outcomes1(get_S1_IA(fs, engineCalls, a, "both")) :
       Finish("get_S1_IA", a, get_S1_IA(fs, engineCalls, a, e), <<e>>)

Reinvoke_get_S1_lat_lon ==
  /\ pinned # <<>>
  /\ pinned[1].op = "get_S1_lat_lon"
  /\ UNCHANGED pinned
  /\ LET a == pinned[1].a IN
     \E e1 \in Outcomes1(get_S1_lat_lon(fs, engineCalls, a, "both", "both")) :
       \E e2 \in Outcomes2(get_S1_lat_lon(fs, engineCalls, a, e1, "both")) :
         Finish("get_S1_lat_lon", a, get_S1_lat_lon(fs, engineCalls, a, e1, e2), <<e1, e2>>)

NextRepeat ==
  \/ Reinvoke_get_S1_intensity
  \/ Reinvoke_get_S1_IA
  \/ Reinvoke_get_S1_lat_lon

SpecRepeat == InitRepeat /\ [][NextRepeat]_vars

(***************************************************************************)
(* A session that tries one multilook string, every string over the        *)
(* alphabet up to the length bound, in an otherwise sound request.         *)
(***************************************************************************)
MLAlphabet == {"0", "1", "2", "3", "x", "a", "-"}

MLStrings == UNION {[1..n -> MLAlphabet] : n \in 0..MaxMLLen}

MLRequest == CHOOSE a \in SoundArgs :
  a.intensity = "HH" /\ a.ML = ML_1x1 /\ ~a.dB /\ ~a.overwrite /\ ~a.dry_run

InitML ==
  /\ fs = EmptyFS
  /\ engineCalls = 0
  /\ last = NoCall
  /\ pinned \in {<<[op |-> "get_S1_intensity", a |-> [MLRequest EXCEPT !.ML = m]]>> :
                   m \in MLStrings}

SpecML == InitML /\ [][Reinvoke_get_S1_intensity]_vars

(***************************************************************************)
(* A session that resolves one product basename.  The basename is built    *)
(* from its fields: the mission, up to three fields drawn from one pool    *)
(* (so that a mode, a type or a code can stand in any place), then dates.  *)
(***************************************************************************)
FieldPool ==
  {<<"EW">>, <<"IW">>, <<"SM">>, <<"WV">>, <<"XX">>, <<"GRDM">>,
   <<"1SDH">>, <<"1SSH">>, <<"1SDV">>, <<"1SSV">>, <<>>}

DateFields(n) == [i \in 1..n |-> <<"20200101T000000">>]

BasenameFields ==
  {<<<<"S1A">>>> \o m : m \in UNION {[1..k -> FieldPool] : k \in 0..2}}
    \cup {<<<<"S1A">>>> \o m \o DateFields(n) :
             m \in [1..3 -> FieldPool], n \in 0..(MaxFields - 4)}

\* '_'.join(fields)
RECURSIVE Join(_)
Join(fields) ==
  IF Len(fields) = 1 THEN fields[1]
  ELSE fields[1] \o <<"_">> \o Join(Tail(fields))

InitInfo ==
  /\ fs = EmptyFS
  /\ engineCalls = 0
  /\ last = NoCall
  /\ pinned \in {<<[op |-> "get_S1_product_info", a |-> [fields |-> f]]>> :
                   f \in BasenameFields}

Call_get_S1_product_info ==
  /\ pinned # <<>>
  /\ pinned[1].op = "get_S1_product_info"
  /\ last' = [NoCall EXCEPT !.op = "get_S1_product_info",
                            !.args = <<get_S1_product_info(Join(pinned[1].a.fields))>>]
  /\ UNCHANGED <<fs, engineCalls, pinned>>

SpecInfo == InitInfo /\ [][Call_get_S1_product_info]_vars

(***************************************************************************)
(* A session that asks for one intensity recipe: products of every mode    *)
(* and type, with and without speckle filter, linear and log.  The recipe  *)
(* selection is also taken as a step of its own, which leaves the key it   *)
(* built and whether the registry knows it.                                *)
(***************************************************************************)
RecipeModes == {"EW", "IW", "SM"}
RecipeTypes == {"GRDM", "GRDH", "SLC"}
RecipeMLs ==
  {ML_1x1, <<"1", "x", "3">>, <<"3", "x", "1">>, ML_3x3, <<"5", "x", "1">>}

RecipeRequests ==
  {[MLRequest EXCEPT !.product = Product(m, t, "1SDH", "SAFE"), !.ML = ml, !.dB = d] :
     m \in RecipeModes, t \in RecipeTypes, ml \in RecipeMLs, d \in BOOLEAN}

InitRecipe ==
  /\ fs = EmptyFS
  /\ engineCalls = 0
  /\ last = NoCall
  /\ pinned \in {<<[op |-> "get_S1_intensity", a |-> a]>> : a \in RecipeRequests}

Select_snap_graph ==
  /\ pinned # <<>>
  /\ last = NoCall
  /\ last' = [NoCall EXCEPT !.op = "select_snap_graph",
                            !.args = <<select_snap_graph(pinned[1].a)>>]
  /\ UNCHANGED <<fs, engineCalls, pinned>>

NextRecipe ==
  \/ Select_snap_graph
  \/ Reinvoke_get_S1_intensity

SpecRecipe == InitRecipe /\ [][NextRecipe]_vars

(***************************************************************************)
(* S1_swath_mask: the swath mask of one annotation document.  A document   *)
(* holds numberOfLines, numberOfSamples and the swathBounds records in     *)
(* document order; a raster is a function from the pixels <<y, x>> to the  *)
(* uint8 value.                                                            *)
(***************************************************************************)
\* swaths of get_S1_swath_mask; no list for the other modes
swath_names(p_mode) ==
  IF p_mode = <<"EW">> THEN <<"EW1", "EW2", "EW3", "EW4", "EW5">>
  ELSE IF p_mode = <<"IW">> THEN <<"IW1", "IW2", "IW3">>
  ELSE <<>>

\* zeros((rows, cols), dtype=uint8)
zeros(rows, cols) == [p \in (0..(rows - 1)) \X (0..(cols - 1)) |-> 0]

\* a bug: only the first swathBounds record of the swath is painted
PaintBoxes_first(mask, cols, boxes) ==
  IF boxes = <<>> THEN mask
  ELSE
    LET sb == Head(boxes)
        x2 == IF sb.lastRangeSample + 1 < cols THEN sb.lastRangeSample + 1 ELSE cols
    IN
    [p \in DOMAIN mask |->
       IF /\ sb.firstAzimuthLine <= p[1] /\ p[1] < sb.lastAzimuthLine + 1
          /\ sb.firstRangeSample <= p[2] /\ p[2] < x2
       THEN 1 ELSE mask[p]]

\* a bug: a box adds one to its pixels instead of setting them
RECURSIVE PaintBoxes_add(_, _, _)
PaintBoxes_add(mask, cols, boxes) ==
  IF boxes = <<>> THEN mask
  ELSE
    LET sb == Head(boxes)
        x2 == IF sb.lastRangeSample + 1 < cols THEN sb.lastRangeSample + 1 ELSE cols
    IN
    PaintBoxes_add(
      [p \in DOMAIN mask |->
         IF /\ sb.firstAzimuthLine <= p[1] /\ p[1] < sb.lastAzimuthLine + 1
            /\ sb.firstRangeSample <= p[2] /\ p[2] < x2
         THEN (mask[p] + 1) % 256 ELSE mask[p]],
      cols, Tail(boxes))

\* for sb_xml in swathBoundsXml: mask[y1:y2+1, x1:x2] = True, with
\* x2 = min(lastRangeSample + 1, cols)
RECURSIVE PaintBoxes(_, _, _)
PaintBoxes(mask, cols, boxes) ==
  IF boxes = <<>> THEN mask
  ELSE
    LET sb == Head(boxes)
        x2 == IF sb.lastRangeSample + 1 < cols THEN sb.lastRangeSample + 1 ELSE cols
    IN
    PaintBoxes(
      [p \in DOMAIN mask |->
         IF /\ sb.firstAzimuthLine <= p[1] /\ p[1] < sb.lastAzimuthLine + 1
            /\ sb.firstRangeSample <= p[2] /\ p[2] < x2
         THEN 1 ELSE mask[p]],
      cols, Tail(boxes))

\* get_swath_mask: the records whose swath is the wanted one, painted on zeros
get_swath_mask(ann, swath) ==
  PaintBoxes(zeros(ann.rows, ann.cols), ann.cols,
             SelectSeq(ann.swathBounds, LAMBDA sb : sb.swath = swath))

\* a bug: the swaths are combined by the maximum
RECURSIVE swath_loop_max(_, _, _, _)
swath_loop_max(ann, swaths, swath_number, swath_mask) ==
  IF swath_number > Len(swaths) THEN swath_mask
  ELSE
    LET m == get_swath_mask(ann, swaths[swath_number]) IN
    swath_loop_max(ann, swaths, swath_number + 1,
      IF swath_number = 1 THEN m
      ELSE [p \in DOMAIN m |->
              IF swath_number * m[p] > swath_mask[p]
              THEN swath_number * m[p] ELSE swath_mask[p]])

\* the loop over all swaths of get_S1_swath_mask, in uint8 arithmetic:
\* swath_mask = swath_mask + (swath_number) * get_swath_mask(...)
RECURSIVE swath_loop(_, _, _, _)
swath_loop(ann, swaths, swath_number, swath_mask) ==
  IF swath_number > Len(swaths) THEN swath_mask
  ELSE
    LET m == get_swath_mask(ann, swaths[swath_number]) IN
    swath_loop(ann, swaths, swath_number + 1,
      IF swath_number = 1 THEN m
      ELSE [p \in DOMAIN m |-> (swath_mask[p] + swath_number * m[p]) % 256])

(***************************************************************************)
(* A session that builds the mask of one annotation document, and then     *)
(* builds it again from the same records in any order.                     *)
(***************************************************************************)
Shapes == {<<2, 2>>, <<1, 1>>}

BoxCoords == 0..1

\* the swathBounds records a document of the mode can hold
SwathBounds(p_mode) ==
  {sb \in [swath : {swath_names(p_mode)[i] : i \in 1..Len(swath_names(p_mode))},
           firstAzimuthLine : BoxCoords, lastAzimuthLine : BoxCoords,
           firstRangeSample : BoxCoords, lastRangeSample : BoxCoords] :
     /\ sb.firstAzimuthLine <= sb.lastAzimuthLine
     /\ sb.firstRangeSample <= sb.lastRangeSample}

AnnotationsOf(p_mode) ==
  {[mode |-> p_mode, rows |-> sh[1], cols |-> sh[2], swathBounds |-> r] :
     sh \in Shapes,
     r \in UNION {[1..n -> SwathBounds(p_mode)] : n \in 0..MaxRecords}}

InitMask ==
  /\ fs = EmptyFS
  /\ engineCalls = 0
  /\ last = NoCall
  /\ \E p_mode \in {<<"EW">>, <<"IW">>} :
       pinned \in {<<[op |-> "swath_loop", a |-> ann]>> : ann \in AnnotationsOf(p_mode)}

Build_swath_mask ==
  /\ pinned # <<>>
  /\ pinned[1].op = "swath_loop"
  /\ last = NoCall
  /\ LET ann == pinned[1].a IN
     last' = [NoCall EXCEPT
                !.op = "swath_loop",
                !.args = <<swath_loop(ann, swath_names(ann.mode), 1, <<>>)>>]
  /\ UNCHANGED <<fs, engineCalls, pinned>>

\* the same document read again, its records in any order; the call leaves
\* both rasters and whether the order was another one
Rebuild_swath_mask ==
  /\ pinned # <<>>
  /\ last.op = "swath_loop"
  /\ Len(last.args) = 1
  /\ LET ann == pinned[1].a IN
     \E order \in Permutations(1..Len(ann.swathBounds)) :
       LET again == [ann EXCEPT !.swathBounds =
                       [i \in 1..Len(ann.swathBounds) |-> ann.swathBounds[order[i]]]]
       IN
       last' = [last EXCEPT
                  !.args = <<last.args[1],
                             swath_loop(again, swath_names(again.mode), 1, <<>>),
                             again.swathBounds # ann.swathBounds>>]
  /\ UNCHANGED <<fs, engineCalls, pinned>>

NextMask ==
  \/ Build_swath_mask
  \/ Rebuild_swath_mask

SpecMask == InitMask /\ [][NextMask]_vars

(***************************************************************************)
(* A session that builds the mask of a document in which every swath of    *)
(* the mode may have a box, and one swath a second box, on a raster of one *)
(* line and two samples: the boxes overlap in every way, up to all swaths  *)
(* on one pixel.                                                           *)
(***************************************************************************)
CoverBoxes == <<[first |-> 0, last |-> 0], [first |-> 0, last |-> 1], [first |-> 1, last |-> 1]>>

CoverRecord(swath, k) ==
  [swath |-> swath, firstAzimuthLine |-> 0, lastAzimuthLine |-> 0,
   firstRangeSample |-> CoverBoxes[k].first, lastRangeSample |-> CoverBoxes[k].last]

\* the records of a choice c: swath i has the box c[i], or none when c[i] = 0
CoverRecords(p_mode, c) ==
  LET swaths == swath_names(p_mode)
      chosen == SelectSeq([i \in 1..Len(swaths) |-> <<i, c[i]>>], LAMBDA x : x[2] # 0)
  IN [j \in 1..Len(chosen) |-> CoverRecord(swaths[chosen[j][1]], chosen[j][2])]

CoverAnnotations(p_mode) ==
  LET n == Len(swath_names(p_mode)) IN
  {[mode |-> p_mode, rows |-> 1, cols |-> 2, swathBounds |-> CoverRecords(p_mode, c) \o extra] :
     c \in [1..n -> 0..Len(CoverBoxes)],
     extra \in {<<>>} \cup {<<CoverRecord(swath_names(p_mode)[i], k)>> :
                                i \in 1..n, k \in 1..Len(CoverBoxes)}}

InitCover ==
  /\ fs = EmptyFS
  /\ engineCalls = 0
  /\ last = NoCall
  /\ \E p_mode \in {<<"EW">>, <<"IW">>} :
       pinned \in {<<[op |-> "swath_loop", a |-> ann]>> : ann \in CoverAnnotations(p_mode)}

\* swaths of get_full_S1_swath_mask: the same list for every product
full_swath_names(p_mode) == <<"EW1", "EW2", "EW3", "EW4", "EW5">>

\* the loop over all swaths of get_full_S1_swath_mask on the same document;
\* the call leaves both rasters
Build_full_swath_mask ==
  /\ pinned # <<>>
  /\ last.op = "swath_loop"
  /\ Len(last.args) = 1
  /\ LET ann == pinned[1].a IN
     last' = [last EXCEPT
                !.args = <<last.args[1],
                           swath_loop(ann, full_swath_names(ann.mode), 1, <<>>)>>]
  /\ UNCHANGED <<fs, engineCalls, pinned>>

NextCover ==
  \/ Build_swath_mask
  \/ Build_full_swath_mask

SpecCover == InitCover /\ [][NextCover]_vars

(***************************************************************************)
(* A session that asks for the swath mask of one product again and again:  *)
(* products of every mode, as a SAFE folder and as a zip file, the zip     *)
(* with or without its annotation and manifest entries.                    *)
(***************************************************************************)
SwathRequests ==
  {[product |-> Product(m, "GRDM", "1SDH", sfx), prodExists |-> TRUE,
    overwrite |-> o, annotationInZip |-> an, manifestInZip |-> mf, sameShape |-> TRUE] :
     m \in {"EW", "IW", "SM", "WV"}, sfx \in {"SAFE", "zip"},
     o \in BOOLEAN, an \in BOOLEAN, mf \in BOOLEAN}

InitSwath ==
  /\ fs = EmptyFS
  /\ engineCalls = 0
  /\ last = NoCall
  /\ pinned \in {<<[op |-> "get_S1_swath_mask", a |-> a]>> : a \in SwathRequests}

Reinvoke_get_S1_swath_mask ==
  /\ pinned # <<>>
  /\ pinned[1].op = "get_S1_swath_mask"
  /\ UNCHANGED pinned
  /\ LET a == pinned[1].a IN
     Finish("get_S1_swath_mask", a, get_S1_swath_mask(fs, engineCalls, a), <<>>)

SpecSwath == InitSwath /\ [][Reinvoke_get_S1_swath_mask]_vars

(***************************************************************************)
(* S1_swath_mask.annotation_path_from_manifest_path: the lookup of the     *)
(* annotation document.  A file name is the sequence of its parts; the     *)
(* annotation folder is the sequence of its file names in the order glob   *)
(* lists them.                                                             *)
(***************************************************************************)
\* fnmatch of a file name against f's1*{polarization}*.xml'
MatchesPattern(name, polarization) ==
  /\ Len(name) >= 2
  /\ name[1] \in {"s1a", "s1b"}
  /\ name[Len(name)] = ".xml"
  /\ \E i \in 2..(Len(name) - 1) : name[i] = polarization

\* glob.glob(...)[0]: the first match, IndexError when nothing matches
annotation_path_from_manifest_path(folder, polarization) ==
  LET found == SelectSeq(folder, LAMBDA name : MatchesPattern(name, polarization)) IN
  IF found = <<>> THEN [ret |-> "raise", why |-> "index_error", path |-> <<>>]
  ELSE [ret |-> "path", why |-> "done", path |-> found[1]]

AnnotationFiles ==
  { <<"s1a", "-ew-grd-", "hh", "-001", ".xml">>,
    <<"s1a", "-ew-grd-", "hv", "-002", ".xml">>,
    <<"s1a", "-ew-grd-", "hh", "-003", ".xml">>,
    <<"calibration-", "s1a", "-ew-grd-", "hh", "-001", ".xml">>,
    <<"s1a", "-ew-grd-", "hh", "-001", ".txt">> }

\* the listings of a folder: no name twice
Folders ==
  {f \in UNION {[1..n -> AnnotationFiles] : n \in 0..MaxFiles} :
     \A i, j \in 1..Len(f) : f[i] = f[j] => i = j}

InitLookup ==
  /\ fs = EmptyFS
  /\ engineCalls = 0
  /\ last = NoCall
  /\ pinned \in {<<[op |-> "annotation_path_from_manifest_path",
                    a |-> [folder |-> f, polarization |-> pol]]>> :
                   f \in Folders, pol \in {"hh", "hv", "vv"}}

Call_annotation_path_from_manifest_path ==
  /\ pinned # <<>>
  /\ pinned[1].op = "annotation_path_from_manifest_path"
  /\ last = NoCall
  /\ LET r == annotation_path_from_manifest_path(pinned[1].a.folder,
                                                 pinned[1].a.polarization)
     IN last' = [NoCall EXCEPT !.op = "annotation_path_from_manifest_path",
                               !.ret = r.ret, !.why = r.why, !.args = <<r.path>>]
  /\ UNCHANGED <<fs, engineCalls, pinned>>

SpecLookup == InitLookup /\ [][Call_annotation_path_from_manifest_path]_vars

(***************************************************************************)
(* make_S1_rgb: the scaling of one channel.  The rasters are float32, so   *)
(* every array operation rounds its result to a 24-bit significand, to     *)
(* nearest, ties to even.  A float is [m, e], the value m / 2^e with       *)
(* m < 2^SignificandBits; the clip bounds and the output range are         *)
(* integers, as are the dB values that are tried.                          *)
(***************************************************************************)
RECURSIVE Pow2(_)
Pow2(n) == IF n = 0 THEN 1 ELSE 2 * Pow2(n - 1)

\* the bits to drop for the significand m to fit
RECURSIVE ExcessBits(_, _)
ExcessBits(m, s) ==
  IF m < Pow2(SignificandBits + s) THEN s ELSE ExcessBits(m, s + 1)

\* the float32 nearest to m / 2^e, ties to even
RoundFloat(m, e) ==
  IF m < Pow2(SignificandBits) THEN [m |-> m, e |-> e]
  ELSE
    LET s    == ExcessBits(m, 1)
        q    == m \div Pow2(s)
        r    == m % Pow2(s)
        half == Pow2(s - 1)
    IN [m |-> IF r > half \/ (r = half /\ q % 2 = 1) THEN q + 1 ELSE q,
        e |-> e - s]

\* the exponent that gives b / a a full significand
RECURSIVE QuotientExp(_, _, _)
QuotientExp(b, a, e) ==
  IF b * Pow2(e) >= a * Pow2(SignificandBits - 1) THEN e ELSE QuotientExp(b, a, e + 1)

\* (newMax - newMin) / (hhMax - hhMin) as the float32 that multiplies the array
DivFloat(b, a) ==
  IF b = 0 THEN [m |-> 0, e |-> 0]
  ELSE
    LET e == QuotientExp(b, a, 0)
        q == (b * Pow2(e)) \div a
        r == (b * Pow2(e)) % a
    IN [m |-> IF 2 * r > a \/ (2 * r = a /\ q % 2 = 1) THEN q + 1 ELSE q, e |-> e]

\* HH_dB[HH_dB<hhMin] = hhMin; HH_dB[HH_dB>hhMax] = hhMax
Clip(v, hhMin, hhMax) ==
  IF v < hhMin THEN hhMin ELSE IF v > hhMax THEN hhMax ELSE v

\* HH_scaled = (HH_dB - hhMin) * ((newMax - newMin) / (hhMax - hhMin)) + newMin
HH_scaled(v, hhMin, hhMax, newMin, newMax) ==
  LET k == DivFloat(newMax - newMin, hhMax - hhMin)
      p == RoundFloat((Clip(v, hhMin, hhMax) - hhMin) * k.m, k.e)
  IN RoundFloat(newMin * Pow2(p.e) + p.m, p.e)

(***************************************************************************)
(* A session that scales one dB value under one choice of the clip bounds  *)
(* and of the output range: the defaults of make_S1_rgb and others.        *)
(***************************************************************************)
ScaleRequests ==
  {[hhMin |-> lo, hhMax |-> hi, newMin |-> nlo, newMax |-> nhi, v |-> lo + d] :
     lo \in {-35, -33, -30, -7, -3, -1}, hi \in {-5, 0},
     nlo \in {0, 1}, nhi \in {1, 100, 255}, d \in -1..36}

InitScale ==
  /\ fs = EmptyFS
  /\ engineCalls = 0
  /\ last = NoCall
  /\ pinned \in {<<[op |-> "HH_scaled", a |-> a]>> :
                   a \in {x \in ScaleRequests : x.hhMin < x.hhMax /\ x.v <= x.hhMax + 1}}

Scale_channel ==
  /\ pinned # <<>>
  /\ pinned[1].op = "HH_scaled"
  /\ last = NoCall
  /\ LET a == pinned[1].a IN
     last' = [NoCall EXCEPT
                !.op = "HH_scaled",
                !.args = <<HH_scaled(a.v, a.hhMin, a.hhMax, a.newMin, a.newMax)>>]
  /\ UNCHANGED <<fs, engineCalls, pinned>>

SpecScale == InitScale /\ [][Scale_channel]_vars

(***************************************************************************)
(* Two callers that invoke get_S1_IA at the same time on one feature       *)
(* directory, each again and again.  An invocation is taken one file       *)
(* system call at a time: the test of tmp_folder.is_dir(), the rmtree of   *)
(* a stale folder, mkdir(exist_ok=False), the engine, the two copies and   *)
(* the final rmtree.  last holds, per caller, where it is, the engine run  *)
(* that is its own and what its last invocation returned; and the events   *)
(* seen so far.                                                            *)
(***************************************************************************)
Callers == {1, 2}

Other(i) == 3 - i

\* between its mkdir of tmp_folder and its rmtree of it
UsesScratch(pc) == pc \in {"engine", "copy_img", "copy_hdr", "rmtree_tmp"}

InitRace ==
  /\ fs = EmptyFS
  /\ engineCalls = 0
  /\ pinned \in {<<[op |-> "get_S1_IA", a |-> a], [op |-> "get_S1_IA", a |-> b]>> :
                   a \in {x \in MetaSound : ~x.dry_run}, b \in {x \in MetaSound : ~x.dry_run}}
  /\ last = [op |-> "concurrent",
             pc |-> <<"idle", "idle">>, run |-> <<0, 0>>, ret |-> <<"", "">>,
             started |-> <<FALSE, FALSE>>, events |-> {}]

\* a caller ends its invocation
Ends(l, i, ret) == [l EXCEPT !.pc[i] = "done", !.ret[i] = ret]

\* the checks, the skip decision and feat_folder.mkdir
Race_enter ==
  \E i \in Callers :
    /\ last.pc[i] = "idle"
    /\ LET a == pinned[i].a IN
       IF SkipDecision(IsFile(fs, "IA"), a.overwrite)
       THEN /\ last' = [Ends(last, i, "True") EXCEPT !.started[i] = TRUE]
            /\ UNCHANGED fs
       ELSE /\ last' = [last EXCEPT !.pc[i] = "is_dir", !.started[i] = TRUE]
            /\ fs' = [fs EXCEPT !.featDir = TRUE]
    /\ UNCHANGED <<engineCalls, pinned>>

\* a bug: a stale tmp_folder is not removed
AfterIsDir_keep(is_dir) == "mkdir"

\* if tmp_folder.is_dir(): rmtree first
AfterIsDir(is_dir) == IF is_dir THEN "rmtree_stale" ELSE "mkdir"

Race_is_dir ==
  \E i \in Callers :
    /\ last.pc[i] = "is_dir"
    /\ last' = [last EXCEPT !.pc[i] = AfterIsDir(fs.tmpDir)]
    /\ UNCHANGED <<fs, engineCalls, pinned>>

\* shutil.rmtree(tmp_folder), before the mkdir or at the end of the call
Race_rmtree ==
  \E i \in Callers :
    /\ last.pc[i] \in {"rmtree_stale", "rmtree_tmp"}
    /\ IF ~fs.tmpDir
       THEN /\ last' = Ends(last, i, "raise")
            /\ UNCHANGED fs
       ELSE /\ fs' = RmTree(fs)
            /\ LET l == IF last.pc[i] = "rmtree_stale"
                        THEN [last EXCEPT !.pc[i] = "mkdir"]
                        ELSE Ends(last, i, CompletedValue("get_S1_IA"))
               IN last' = [l EXCEPT !.events =
                             IF UsesScratch(last.pc[Other(i)])
                             THEN @ \cup {"removed_in_use"} ELSE @]
    /\ UNCHANGED <<engineCalls, pinned>>

\* tmp_folder.mkdir(exist_ok=False)
Race_mkdir ==
  \E i \in Callers :
    /\ last.pc[i] = "mkdir"
    /\ IF fs.tmpDir
       THEN /\ last' = [Ends(last, i, "raise") EXCEPT !.events = @ \cup {"mkdir_failed"}]
            /\ UNCHANGED fs
       ELSE /\ fs' = MkTmp(fs)
            /\ last' = [last EXCEPT !.pc[i] = "engine"]
    /\ UNCHANGED <<engineCalls, pinned>>

\* os.system(snap_cmd): into the folder if it is there; if it is not, the
\* engine writes nothing or makes the folder for its output
Race_engine ==
  \E i \in Callers :
    /\ last.pc[i] = "engine"
    /\ engineCalls < MaxRuns
    /\ engineCalls' = engineCalls + 1
    /\ \E outcome \in EngineOutcomes :
         fs' = IF fs.tmpDir THEN RunEngine(fs, "incAngle", outcome, engineCalls + 1)
               ELSE IF outcome = "none" THEN fs
               ELSE RunEngine(MkTmp(fs), "incAngle", outcome, engineCalls + 1)
    /\ last' = [last EXCEPT !.pc[i] = "copy_img", !.run[i] = engineCalls + 1]
    /\ UNCHANGED pinned

\* the two shutil.copyfile calls
Race_copy ==
  \E i \in Callers :
    /\ last.pc[i] \in {"copy_img", "copy_hdr"}
    /\ LET kind == IF last.pc[i] = "copy_img" THEN "img" ELSE "hdr" IN
       IF ~CanCopy(fs, "incAngle", kind)
       THEN /\ last' = Ends(last, i, "raise")
            /\ UNCHANGED fs
       ELSE /\ fs' = CopyFile(fs, "incAngle", kind, "IA")
            /\ last' = [last EXCEPT
                          !.pc[i] = IF kind = "img" THEN "copy_hdr" ELSE "rmtree_tmp",
                          !.events = IF fs.tmpData[kind] # last.run[i]
                                     THEN @ \cup {"copied_other"} ELSE @]
    /\ UNCHANGED <<engineCalls, pinned>>

\* the caller goes on to its next invocation
Race_again ==
  \E i \in Callers :
    /\ last.pc[i] = "done"
    /\ last' = [last EXCEPT !.pc[i] = "idle"]
    /\ UNCHANGED <<fs, engineCalls, pinned>>

NextRace ==
  \/ Race_enter
  \/ Race_is_dir
  \/ Race_rmtree
  \/ Race_mkdir
  \/ Race_engine
  \/ Race_copy
  \/ Race_again

SpecRace == InitRace /\ [][NextRace]_vars

(***************************************************************************)
(* A session that repeats one get_S1_lat_lon call, long enough for a call  *)
(* to follow one that crashed between the two engine runs.  The call       *)
(* leaves, next to its arguments, which of lat.img and lon.img were there  *)
(* when it began.                                                          *)
(***************************************************************************)
InitPair ==
  /\ fs = EmptyFS
  /\ engineCalls = 0
  /\ last = NoCall
  /\ pinned \in {<<[op |-> "get_S1_lat_lon", a |-> a]>> : a \in LatLonArgs}

Call_lat_lon_pair ==
  /\ pinned # <<>>
  /\ pinned[1].op = "get_S1_lat_lon"
  /\ UNCHANGED pinned
  /\ LET a == pinned[1].a IN
     \E e1 \in Outcomes1(get_S1_lat_lon(fs, engineCalls, a, "both", "both")) :
       \E e2 \in Outcomes2(get_S1_lat_lon(fs, engineCalls, a, e1, "both")) :
         LET r == get_S1_lat_lon(fs, engineCalls, a, e1, e2) IN
         /\ r.runs <= MaxPairRuns
         /\ fs' = r.fs
         /\ engineCalls' = r.runs
         /\ last' = [NoCall EXCEPT
                       !.op = "get_S1_lat_lon",
                       !.present = TargetPresent(fs, "get_S1_lat_lon", a),
                       !.overwrite = a.overwrite,
                       !.dry = a.dry_run,
                       !.ret = r.ret,
                       !.why = r.why,
                       !.nEngine = r.nEngine,
                       !.tmpOps = r.tmpOps,
                       !.args = <<a, [lat |-> IsFile(fs, "lat"), lon |-> IsFile(fs, "lon")]>>,
                       !.eng = IF r.nEngine > 0 THEN SubSeq(<<e1, e2>>, 1, r.nEngine) ELSE <<>>]

SpecPair == InitPair /\ [][Call_lat_lon_pair]_vars

(***************************************************************************)
(* S1_feature_extraction_nersc.extract_features: the variant that reads    *)
(* the product through the metadata library and writes tif files.  fs.tifs *)
(* holds the names of the tif files it wrote into the feature directory,   *)
(* a name being the sequence of its '_'-separated parts; swath_mask.tif is *)
(* fs.tif.  A call of the library returns or raises.                       *)
(***************************************************************************)
LibraryOutcomes == {"ok", "get_IA_raises", "get_sigma0_raises"}

\* the name the loop tests: Sigma0_{polarization}_{denoising_algorithm}_db.tif
Sigma0_tested(polarization, denoising_algorithm, dB) ==
  <<"Sigma0", polarization, denoising_algorithm, "db">>

\* the name the loop writes: with _db if dB, without it otherwise
Sigma0_written(polarization, denoising_algorithm, dB) ==
  <<"Sigma0", polarization, denoising_algorithm>> \o (IF dB THEN <<"db">> ELSE <<>>)

NerscRes(s, ret, why, extracted) ==
  [fs |-> s, ret |-> ret, why |-> why, extracted |-> extracted]

\* if not file: extract; elif file and overwrite: extract; else: skip
Extracts(exists, overwrite) == ~exists \/ overwrite

\* EXTRACT S1 SWATH MASK, the last block of extract_features
extract_swath_mask(s, a, extracted) ==
  IF ~Extracts(s.tif, a.overwrite) THEN NerscRes(s, "None", "done", extracted)
  ELSE
    LET r == get_full_S1_swath_mask(s, 0, a) IN
    IF r.ret = "raise" THEN NerscRes(r.fs, "raise", r.why, extracted)
    ELSE NerscRes(r.fs, "None", "done",
                  IF r.why = "done" THEN Append(extracted, <<"swath", "mask">>) ELSE extracted)

\* EXTRACT INTENSITY BANDS: for polarization in ['HH', 'HV']
RECURSIVE extract_intensity_bands(_, _, _, _, _)
extract_intensity_bands(s, a, lib, pols, extracted) ==
  IF pols = <<>> THEN extract_swath_mask(s, a, extracted)
  ELSE
    LET tested  == Sigma0_tested(Head(pols), a.denoising_algorithm, a.dB)
        written == Sigma0_written(Head(pols), a.denoising_algorithm, a.dB)
    IN
    IF ~Extracts(tested \in s.tifs, a.overwrite)
      THEN extract_intensity_bands(s, a, lib, Tail(pols), extracted)
    ELSE IF lib = "get_sigma0_raises"
      THEN NerscRes(s, "raise", "get_sigma0", extracted)
    ELSE extract_intensity_bands([s EXCEPT !.tifs = @ \cup {written}], a, lib,
                                 Tail(pols), Append(extracted, written))

extract_features(s, a, lib) ==
  \* if not safe_folder.is_dir()
  IF ~(a.prodExists /\ a.product.suffix = "SAFE")
    THEN NerscRes(s, "raise", "no_product", <<>>)
  ELSE
    LET s1 == [s EXCEPT !.featDir = TRUE] IN
    \* EXTRACT INCIDENT ANGLE
    IF ~Extracts(<<"IA">> \in s1.tifs, a.overwrite)
      THEN extract_intensity_bands(s1, a, lib, <<"HH", "HV">>, <<>>)
    ELSE IF lib = "get_IA_raises" THEN NerscRes(s1, "raise", "get_IA", <<>>)
    ELSE extract_intensity_bands([s1 EXCEPT !.tifs = @ \cup {<<"IA">>}], a, lib,
                                 <<"HH", "HV">>, <<<<"IA">>>>)

NerscRequests ==
  [product : {EW_SAFE}, prodExists : BOOLEAN, overwrite : BOOLEAN,
   annotationInZip : BOOLEAN, manifestInZip : {TRUE}, sameShape : {TRUE},
   denoising_algorithm : {"ESA", "NERSC"}, dB : BOOLEAN]

InitNersc ==
  /\ fs = EmptyFS
  /\ engineCalls = 0
  /\ last = NoCall
  /\ pinned \in {<<[op |-> "extract_features", a |-> a]>> : a \in NerscRequests}

\* the call leaves what it returned and the names of what it extracted
Call_extract_features ==
  /\ pinned # <<>>
  /\ pinned[1].op = "extract_features"
  /\ \E lib \in LibraryOutcomes :
       LET r == extract_features(fs, pinned[1].a, lib) IN
       /\ fs' = r.fs
       /\ last' = [NoCall EXCEPT !.op = "extract_features", !.ret = r.ret,
                                 !.why = r.why, !.overwrite = pinned[1].a.overwrite,
                                 !.args = r.extracted]
  /\ UNCHANGED <<engineCalls, pinned>>

SpecNersc == InitNersc /\ [][Call_extract_features]_vars

(***************************************************************************)
(* Properties.                                                             *)
(***************************************************************************)
StagedOps == {"get_S1_intensity", "get_S1_IA", "get_S1_lat_lon"}

\* the error messages of the precondition checks
PreconditionErrors ==
  {"bad_intensity", "no_gpt", "no_product", "no_polarisation", "bad_file_type",
   "ml_malformed", "ml_even", "not_implemented", "no_graph"}

\* the request asks for a skip: the data file is there and overwrite is off
AsksSkip(l) == l.present /\ ~l.overwrite

\* C1 (as claimed): of two consecutive invocations with the same arguments
\* and overwrite=false, the first of which reached the engine, the engine is
\* invoked at most once in total and the second reports skip and neither
\* creates nor removes the scratch directory.
C1_AtMostOneEngineCall ==
  [][ (pinned # <<>> /\ ~pinned[1].a.overwrite /\ last.nEngine >= 1)
        => /\ last.nEngine + last'.nEngine <= 1
           /\ last'.why = "skip"
           /\ ~last'.tmpOps ]_vars

\* C1 (amended): when the first invocation reached the engine and left every
\* target data file in the feature directory, the second invocation with the
\* same arguments and overwrite=false invokes no engine, reports skip and
\* neither creates nor removes the scratch directory; over both invocations
\* the engine ran once (twice in get_S1_lat_lon, once per artifact).
C1_SecondCallSkips ==
  [][ (/\ pinned # <<>>
       /\ ~pinned[1].a.overwrite
       /\ last.nEngine >= 1
       /\ TargetPresent(fs, pinned[1].op, pinned[1].a))
        => /\ last'.nEngine = 0
           /\ last'.why = "skip"
           /\ ~last'.tmpOps
           /\ fs'.tmpDir = fs.tmpDir
           /\ engineCalls' = engineCalls
           /\ last.nEngine = IF pinned[1].op = "get_S1_lat_lon" THEN 2 ELSE 1 ]_vars

\* C1 witness: a repeated get_S1_lat_lon has skipped after both engine runs
C1_Witness ==
  /\ pinned # <<>>
  /\ pinned[1].op = "get_S1_lat_lon"
  /\ last.why = "skip"
  /\ engineCalls = 2

\* C2: when the target data file exists and overwrite is false,
\* get_S1_intensity, get_S1_IA, get_S1_swath_mask and make_S1_rgb change no
\* file or directory and invoke no engine.
C2_SkipIsNoOp ==
  [][ (/\ last'.op \in {"get_S1_intensity", "get_S1_IA", "get_S1_swath_mask", "make_S1_rgb"}
       /\ AsksSkip(last'))
        => /\ fs' = fs
           /\ engineCalls' = engineCalls
           /\ last'.nEngine = 0 ]_vars

\* C2 witness: make_S1_rgb was called with its composite present, overwrite off
C2_Witness ==
  /\ last.op = "make_S1_rgb"
  /\ AsksSkip(last)
  /\ fs.rgb

\* C3 (as claimed): when a staged operation ends, on any exit path, the
\* scratch directory does not exist.
C3_ScratchRemoved ==
  last.op \in StagedOps => ~fs.tmpDir

\* C4 (as claimed): a call of get_S1_intensity that ends with a precondition
\* error has neither created nor removed the feature or the scratch directory.
C4_ErrorsBeforeFilesystem ==
  [][ (/\ last'.op = "get_S1_intensity"
       /\ last'.why \in {"no_gpt", "no_product", "no_polarisation", "no_graph",
                         "ml_malformed", "ml_even"})
        => /\ fs'.featDir = fs.featDir
           /\ fs'.tmpDir = fs.tmpDir
           /\ ~last'.tmpOps ]_vars

\* what the checks of a staged operation ask of its arguments
ChecksPass(op, a) ==
  /\ a.gptExists
  /\ a.prodExists
  /\ a.product.suffix \in {"SAFE", "zip"}
  /\ a.graph1
  /\ op = "get_S1_lat_lon" => a.graph2
  /\ op = "get_S1_intensity" =>
       LET info  == get_S1_product_info(a.product.stem)
           parts == Split(a.ML, "x")
       IN /\ InPols(a.intensity, info.pols)
          /\ Len(parts) >= 2 /\ IntOk(parts[1]) /\ IntOk(parts[2])
          /\ IntVal(parts[1]) % 2 = 1 /\ IntVal(parts[2]) % 2 = 1
          /\ snap_graph_string(info.mode, info.type, IntVal(parts[1]), a.dB) \in GraphRegistry

\* C5: a staged call that invoked the engine had every precondition check
\* pass: executable and product present, file type SAFE or zip, polarisation
\* in the product, multilook valid, recipe registered, template present.
C5_EngineOnlyAfterChecks ==
  (last.op \in StagedOps /\ last.nEngine > 0)
    => /\ Len(last.args) = 1
       /\ ChecksPass(last.op, last.args[1])

\* C5 witness: get_S1_intensity ran the engine for a 3x3 request
C5_Witness ==
  /\ last.op = "get_S1_intensity"
  /\ last.nEngine = 1
  /\ last.args[1].ML = ML_3x3

C7_RetryCompletes ==
  [][ LET pair(b) == fs'.feat[b].img # 0 /\ fs'.feat[b].hdr # 0
          op == pinned[1].op
          Complete ==
            CASE op = "get_S1_intensity" ->
                   pair(IntensityBase(pinned[1].a.intensity, pinned[1].a.dB))
              [] op = "get_S1_IA" -> pair("IA")
              [] op = "get_S1_lat_lon" -> pair("lat") /\ pair("lon")
          EngineWorked == \A i \in 1..Len(last'.eng) : last'.eng[i] = "both"
      IN (/\ pinned # <<>>
          /\ ~pinned[1].a.overwrite
          /\ last.why \in {"copy_img_failed", "copy_hdr_failed"}
          /\ EngineWorked)
           => Complete ]_vars

\* C8 (as claimed): when a staged operation ends, every artifact of the
\* feature directory has its .img and .hdr both present from the same engine
\* run, or both absent.
C8_OnlyCompleteArtifacts ==
  last.op \in StagedOps
    => \A b \in EngineArtifacts : fs.feat[b].img = fs.feat[b].hdr

\* C9 (as claimed): an operation that skips returns True, the value it
\* returns for a completed production.
C9_SkipReturnsTrue ==
  last.why = "skip"
    => last.ret = "True" /\ last.ret = CompletedValue(last.op)

\* C10 (as claimed): get_S1_intensity rejects, with an error return and no
\* engine invocation, every multilook string that is not RxA with R and A
\* odd integers.
C10_OnlyOddRxA ==
  LET parts == Split(pinned[1].a.ML, "x")
      IsRxA ==
        /\ Len(parts) = 2
        /\ IntOk(parts[1]) /\ IntOk(parts[2])
        /\ IntVal(parts[1]) % 2 = 1 /\ IntVal(parts[2]) % 2 = 1
  IN
  (pinned # <<>> /\ last.op = "get_S1_intensity" /\ ~IsRxA)
    => last.ret = "False" /\ last.nEngine = 0

\* C11 (as claimed): every multilook string that get_S1_intensity lets through
\* to recipe selection has range and azimuth looks that are both positive and
\* odd; strings with a zero or negative factor end in an error return with no
\* engine invocation.
C11_AcceptedLooksPositive ==
  (/\ pinned # <<>>
   /\ last.op = "get_S1_intensity"
   /\ last.why \notin {"skip", "ml_malformed", "ml_even"})
    => /\ looks_rg(pinned[1].a.ML) > 0
       /\ looks_az(pinned[1].a.ML) > 0
       /\ looks_rg(pinned[1].a.ML) % 2 = 1
       /\ looks_az(pinned[1].a.ML) % 2 = 1

\* C12: get_S1_product_info returns the mode field, the type field and the
\* polarisations of the table 1SDH->[HH,HV], 1SSH->[HH], 1SDV->[VV,VH],
\* 1SSV->[VV] exactly when the basename has at least four fields, the fourth
\* is one of the four codes and the second is one of SM, IW, EW, WV; in every
\* other case all three returned values are empty.
C12_ProductInfoTable ==
  (pinned # <<>> /\ last.op = "get_S1_product_info") =>
    LET f     == pinned[1].a.fields
        info  == last.args[1]
        table == [c \in {<<"1SDH">>, <<"1SSH">>, <<"1SDV">>, <<"1SSV">>} |->
                    CASE c = <<"1SDH">> -> <<"HH", "HV">>
                      [] c = <<"1SSH">> -> <<"HH">>
                      [] c = <<"1SDV">> -> <<"VV", "VH">>
                      [] c = <<"1SSV">> -> <<"VV">>]
        valid == /\ Len(f) >= 4
                 /\ f[4] \in DOMAIN table
                 /\ f[2] \in {<<"SM">>, <<"IW">>, <<"EW">>, <<"WV">>}
    IN IF valid
         THEN info = [mode |-> f[2], type |-> f[3], pols |-> table[f[4]]]
         ELSE info.mode = <<>> /\ info.type = <<>> /\ info.pols = <<>>

\* C12 witness: an IW product with code 1SDV resolved to VV and VH
C12_Witness ==
  /\ last.op = "get_S1_product_info"
  /\ last.args[1].mode = <<"IW">>
  /\ last.args[1].pols = <<"VV", "VH">>

\* C13 (as claimed): a staged call on a product whose basename resolves to
\* the invalid identity (all fields empty) ends with an error, leaves the
\* feature directory, the scratch directory and every artifact as they were,
\* and invokes no engine.
C13_InvalidIdentityRefused ==
  [][ (/\ pinned # <<>>
       /\ pinned[1].op \in StagedOps
       /\ get_S1_product_info(pinned[1].a.product.stem) = NoInfo)
        => /\ last'.ret \in {"False", "raise"}
           /\ last'.nEngine = 0
           /\ engineCalls' = engineCalls
           /\ fs'.featDir = fs.featDir
           /\ fs'.tmpDir = fs.tmpDir
           /\ fs'.feat = fs.feat ]_vars

\* C14: the recipe key is a function of (mode, type, speckle flag, log flag):
\* every request with the same four values gets the key this one got; and a
\* request whose (mode, type) the registry does not list ends with the
\* 'not implemented' return False, without the engine and without raising.
C14_RecipeSelectionPure ==
  LET a    == pinned[1].a
      info == get_S1_product_info(a.product.stem)
      same(b) == /\ get_S1_product_info(b.product.stem).mode = info.mode
                 /\ get_S1_product_info(b.product.stem).type = info.type
                 /\ (looks_rg(b.ML) > 1) = (looks_rg(a.ML) > 1)
                 /\ b.dB = a.dB
      listed == \E k \in GraphRegistry : <<k[1]>> = info.mode /\ <<k[2]>> = info.type
  IN
  /\ last.op = "select_snap_graph" =>
       \A b \in RecipeRequests : same(b) => select_snap_graph(b) = last.args[1]
  /\ (last.op = "get_S1_intensity" /\ ~listed) =>
       /\ last.why = "not_implemented"
       /\ last.ret = "False"
       /\ last.nEngine = 0

C14_Witness ==
  /\ last.op = "get_S1_intensity"
  /\ last.why = "not_implemented"
  /\ get_S1_product_info(pinned[1].a.product.stem).mode = <<"SM">>
  /\ pinned[1].a.ML = <<"5", "x", "1">>

\* C15 (as claimed): a log-scale request whose linear twin (same mode, type
\* and speckle flag) resolves to a recipe resolves to a recipe too, and does
\* not end in the 'not implemented' error.
C15_LogFollowsLinear ==
  LET a == pinned[1].a IN
  (/\ last.op = "get_S1_intensity"
   /\ a.dB
   /\ select_snap_graph([a EXCEPT !.dB = FALSE]).found)
     => last.why # "not_implemented"

\* C16: a get_S1_intensity call on an existing EW 1SDH product for HH, linear,
\* ML 1x1, with the engine and the template present and an engine that wrote
\* both files, ends with Sigma0_HH.img and Sigma0_HH.hdr of this run in the
\* feature directory; the template has no Spk part and the engine got no
\* looks parameters.
C16_EndToEndLinearHH ==
  (/\ last.op = "get_S1_intensity"
   /\ last.nEngine = 1
   /\ last.eng = <<"both">>
   /\ last.args[1].product = EW_SAFE
   /\ last.args[1].intensity = "HH"
   /\ ~last.args[1].dB
   /\ last.args[1].ML = ML_1x1)
    => /\ last.ret = "True"
       /\ fs.featDir
       /\ fs.feat["Sigma0_HH"] = [img |-> engineCalls, hdr |-> engineCalls]
       /\ \A i \in 1..Len(last.cmd[1].graph) : last.cmd[1].graph[i] # "Spk"
       /\ \A i \in 1..Len(last.cmd[1].params) :
            last.cmd[1].params[i] \notin {"looks_rg", "looks_az"}

C16_Witness ==
  /\ last.op = "get_S1_intensity"
  /\ last.eng = <<"both">>
  /\ last.args[1].product = EW_SAFE
  /\ last.args[1].intensity = "HH"
  /\ ~last.args[1].dB
  /\ last.args[1].ML = ML_1x1
  /\ fs.feat["Sigma0_HH"].img = engineCalls
  /\ last.cmd[1].graph = <<"EW", "GRDM", "NR", "Cal", "XX">>

\* C17: every pixel of the mask the swath loop builds is the sum of the
\* ordinals of the swaths that have a box covering it, each swath counted
\* once: 0 where no box covers it, the ordinal i where only swath i does.
C17_PixelIsSumOfOrdinals ==
  (last.op = "swath_loop") =>
    LET ann    == pinned[1].a
        swaths == swath_names(ann.mode)
        mask   == last.args[1]
        covers(i, p) ==
          \E k \in 1..Len(ann.swathBounds) :
            /\ ann.swathBounds[k].swath = swaths[i]
            /\ ann.swathBounds[k].firstAzimuthLine <= p[1]
            /\ p[1] <= ann.swathBounds[k].lastAzimuthLine
            /\ ann.swathBounds[k].firstRangeSample <= p[2]
            /\ p[2] <= ann.swathBounds[k].lastRangeSample
        RECURSIVE Ordinals(_, _)
        Ordinals(i, p) ==
          IF i = 0 THEN 0
          ELSE (IF covers(i, p) THEN i ELSE 0) + Ordinals(i - 1, p)
    IN
    /\ DOMAIN mask = (0..(ann.rows - 1)) \X (0..(ann.cols - 1))
    /\ \A p \in DOMAIN mask : mask[p] = Ordinals(Len(swaths), p)

C17_Witness ==
  /\ last.op = "swath_loop"
  /\ Len(pinned[1].a.swathBounds) = 2
  /\ pinned[1].a.swathBounds[1].swath = "EW1"
  /\ pinned[1].a.swathBounds[2].swath = "EW2"
  /\ pinned[1].a.rows = 2
  /\ last.args[1][<<0, 0>>] = 3
  /\ last.args[1][<<1, 1>>] = 0
  /\ last.args[1][<<0, 1>>] = 2

\* C18: the mask built again from the same document, its records in any
\* order, is the mask built the first time, pixel for pixel.
C18_RebuildIdentical ==
  (last.op = "swath_loop" /\ Len(last.args) = 3) =>
    /\ DOMAIN last.args[2] = DOMAIN last.args[1]
    /\ \A p \in DOMAIN last.args[1] : last.args[2][p] = last.args[1][p]

C18_Witness ==
  /\ last.op = "swath_loop"
  /\ Len(last.args) = 3
  /\ last.args[3]
  /\ pinned[1].a.swathBounds[1].swath = pinned[1].a.swathBounds[2].swath
  /\ \E p \in DOMAIN last.args[2] : last.args[2][p] = 2
  /\ \E p \in DOMAIN last.args[2] : last.args[2][p] = 0

\* C19 (as claimed): a get_S1_swath_mask call on an existing product that
\* holds its annotation and manifest, and that is not skipped, takes the swath
\* list of the mode: for EW (EW1..EW5) and IW (IW1..IW3) it composes and
\* writes the mask; for SM and WV it ends in the error return False and no
\* swath mask file is written.
C19_SwathListByMode ==
  LET a    == pinned[1].a
      mode == get_S1_product_info(a.product.stem).mode
  IN
  (/\ last.op = "get_S1_swath_mask"
   /\ a.prodExists /\ a.annotationInZip /\ a.manifestInZip
   /\ last.why # "skip")
    => /\ swath_names(<<"EW">>) = <<"EW1", "EW2", "EW3", "EW4", "EW5">>
       /\ swath_names(<<"IW">>) = <<"IW1", "IW2", "IW3">>
       /\ mode \in {<<"EW">>, <<"IW">>} => (last.ret = "True" /\ fs.swath.img)
       /\ mode \in {<<"SM">>, <<"WV">>} => (last.ret = "False" /\ ~fs.swath.img)

\* C20 (as claimed): the annotation lookup fails hard when no file of the
\* folder matches the polarisation pattern and when more than one does; it
\* returns a path, that of the match, only when exactly one file matches.
C20_LookupNeedsOneMatch ==
  (last.op = "annotation_path_from_manifest_path") =>
    LET a == pinned[1].a
        matches == {i \in 1..Len(a.folder) : MatchesPattern(a.folder[i], a.polarization)}
    IN
    IF Cardinality(matches) = 1
    THEN last.ret = "path" /\ \E i \in matches : last.args[1] = a.folder[i]
    ELSE last.ret = "raise"

\* C21 (as claimed): for hhMin < hhMax and newMin <= newMax, a dB value at or
\* below hhMin is scaled to newMin, a value at or above hhMax is scaled to
\* newMax, and every scaled value lies in [newMin, newMax].
C21_ScalingBoundaryExact ==
  (last.op = "HH_scaled") =>
    LET a  == pinned[1].a
        sc == last.args[1]
        \* sc <= n, sc >= n for the float sc = m / 2^e and the integer n
        AtMost(n)  == (sc.m + Pow2(sc.e) - 1) \div Pow2(sc.e) <= n
        AtLeast(n) == sc.m \div Pow2(sc.e) >= n
    IN
    /\ a.v <= a.hhMin => (AtMost(a.newMin) /\ AtLeast(a.newMin))
    /\ a.v >= a.hhMax => (AtMost(a.newMax) /\ AtLeast(a.newMax))
    /\ AtLeast(a.newMin) /\ AtMost(a.newMax)

\* C22: the staged operations race on feat_folder/tmp only under concurrent
\* use: the removal of a scratch directory another invocation is using, the
\* failure of mkdir(exist_ok=False) and the copy of another invocation's
\* engine output are seen only once both callers have entered; and all three
\* are reachable (the witness).
C22_RaceOnSharedScratch ==
  (last.op = "concurrent" /\ last.events # {}) =>
    /\ last.started[1] /\ last.started[2]
    /\ last.events \subseteq {"removed_in_use", "mkdir_failed", "copied_other"}

C22_Witness ==
  /\ last.op = "concurrent"
  /\ last.events = {"removed_in_use", "mkdir_failed", "copied_other"}

(***************************************************************************)
(* C23: at every engine invocation, the second (longitude) one of          *)
(* get_S1_lat_lon included, the scratch directory exists and is empty:     *)
(* what a crashed earlier run or the previous engine call left in          *)
(* feat_folder/tmp has been removed, so every file a call copies into the  *)
(* feature directory was written by an engine run of that very call, and   *)
(* lon.img/.hdr by its second run.                                         *)
(***************************************************************************)
C23_FreshScratchAtEngine ==
  [][last'.nEngine > 0 =>
       /\ PrepareScratch(fs).tmpDir
       /\ PrepareScratch(fs).tmpData = NoData
       /\ \A b \in EngineArtifacts : \A k \in {"img", "hdr"} :
            fs'.feat[b][k] # fs.feat[b][k] =>
              /\ fs'.feat[b][k] > engineCalls
              /\ fs'.feat[b][k] <= engineCalls'
              /\ (b = "lon" => fs'.feat[b][k] = engineCalls + 2)]_vars

\* a run that crashed left the scratch directory behind, and the next run
\* of the same call, whose engine wrote the data file only, did not find
\* the header of the crashed run
C23_Witness ==
  /\ engineCalls = 2
  /\ last.nEngine = 1
  /\ last.eng = <<"img">>
  /\ last.why = "copy_hdr_failed"
  /\ fs.tmpDir
  /\ fs.tmpData.img = 2
  /\ fs.tmpData.hdr = 0

\* C24 (as claimed): no operation creates or recursively deletes a directory
\* outside the feature directory it was given; after a get_S1_swath_mask
\* call, on a zip product in particular, there is no scratch directory next
\* to the feature directory (feat_folder.parent / 'tmp').
C24_ScratchInsideFeatureDir ==
  last.op = "get_S1_swath_mask" => ~fs.parentTmp

\* C25 (as claimed): for an existing product given as a .SAFE folder with
\* mode EW or IW, get_S1_swath_mask reaches the composition, swath_mask.img
\* is there when it ends and it returns True, as it does for a zip file.
C25_SafeFolderComposes ==
  LET a    == pinned[1].a
      mode == get_S1_product_info(a.product.stem).mode
  IN
  (/\ last.op = "get_S1_swath_mask"
   /\ a.prodExists
   /\ a.product.suffix = "SAFE"
   /\ mode \in {<<"EW">>, <<"IW">>})
    => /\ last.ret = "True"
       /\ last.why \in {"done", "skip"}
       /\ fs.swath.img

\* C26: in a get_S1_intensity call that reached the engine, the recipe has
\* the Spk part, and the engine gets -Plooks_rg and -Plooks_az, if and only if
\* rangeLooks > 1; with ML 1x3 the recipe has no Spk part and the engine gets
\* no looks parameter.
C26_SpeckleIffRangeLooks ==
  LET a   == pinned[1].a
      cmd == last.cmd[1]
      has(seq, x) == \E i \in 1..Len(seq) : seq[i] = x
  IN
  (last.op = "get_S1_intensity" /\ last.nEngine > 0) =>
    /\ has(cmd.graph, "Spk") <=> looks_rg(a.ML) > 1
    /\ has(cmd.params, "looks_rg") <=> looks_rg(a.ML) > 1
    /\ has(cmd.params, "looks_az") <=> looks_rg(a.ML) > 1
    /\ a.ML = <<"1", "x", "3">> =>
         cmd = [graph  |-> select_snap_graph([a EXCEPT !.ML = ML_1x1]).key,
                params |-> <<"inFile", "outFile", "polarization">>]

C26_Witness ==
  /\ last.op = "get_S1_intensity"
  /\ last.nEngine = 1
  /\ last.why = "done"
  /\ pinned[1].a.ML = <<"1", "x", "3">>
  /\ last.cmd[1].params = <<"inFile", "outFile", "polarization">>

\* C27: for EW and IW every value of the accumulated mask fits the unsigned
\* 8-bit type without wrap-around: whatever boxes overlap, a pixel is at most
\* 15 for EW and at most 6 for IW, and the stored value is the sum, taken in
\* the integers, of the ordinals of the swaths covering the pixel.
C27_MaskFitsUint8 ==
  (last.op = "swath_loop") =>
    LET ann    == pinned[1].a
        swaths == swath_names(ann.mode)
        limit  == IF ann.mode = <<"EW">> THEN 15 ELSE 6
        inBox(sb, p) ==
          /\ sb.firstAzimuthLine <= p[1] /\ p[1] <= sb.lastAzimuthLine
          /\ sb.firstRangeSample <= p[2] /\ p[2] <= sb.lastRangeSample
        covering(p) ==
          {i \in 1..Len(swaths) :
             \E k \in 1..Len(ann.swathBounds) :
               ann.swathBounds[k].swath = swaths[i] /\ inBox(ann.swathBounds[k], p)}
        RECURSIVE Sum(_)
        Sum(S) == IF S = {} THEN 0
                  ELSE LET i == CHOOSE x \in S : TRUE IN i + Sum(S \ {i})
    IN
    \A p \in DOMAIN last.args[1] :
      /\ last.args[1][p] \in 0..limit
      /\ Sum(covering(p)) < 256
      /\ last.args[1][p] = Sum(covering(p))

\* all five EW swaths cover one pixel, one of them with two boxes
C27_Witness ==
  /\ last.op = "swath_loop"
  /\ pinned[1].a.mode = <<"EW">>
  /\ Len(pinned[1].a.swathBounds) = 6
  /\ last.args[1][<<0, 0>>] = 15
  /\ last.args[1][<<0, 1>>] = 9

\* C28 (as claimed): after an extract_features run that completed, a second
\* run with the same arguments and overwrite=false extracts nothing: neither
\* IA, nor a Sigma0 channel, nor the swath mask, for dB=True and for dB=False.
C28_SecondRunExtractsNothing ==
  [][(/\ last.op = "extract_features"
      /\ last.ret = "None"
      /\ last.why = "done"
      /\ ~pinned[1].a.overwrite)
        => last'.args = <<>>]_vars

\* C29 (as claimed): the two swath-mask builders agree: on every EW or IW
\* document, for which get_S1_swath_mask builds a mask, the loop of
\* get_full_S1_swath_mask builds the same labelled raster.
C29_BuildersAgree ==
  (last.op = "swath_loop" /\ Len(last.args) = 2) => last.args[2] = last.args[1]

\* C30: get_S1_lat_lon treats latitude and longitude as one pair with a fixed
\* order of steps.  It skips only when lat.img and lon.img both exist and
\* overwrite is false, and then it does skip once the executable, the product
\* and the file type are accepted.  A non-skipped run that completes invoked
\* the engine exactly twice, the first run for latitude and the second for
\* longitude, so both artifacts are produced again even if exactly one of
\* them existed before; no run invokes the engine more than twice, and a dry
\* run not at all.
C30_LatLonPairInOrder ==
  (last.op = "get_S1_lat_lon") =>
    LET a   == last.args[1]
        had == last.args[2]
    IN
    /\ last.why = "skip" => (had.lat /\ had.lon /\ ~a.overwrite)
    /\ (a.gptExists /\ a.prodExists /\ a.product.suffix \in {"SAFE", "zip"}
          /\ had.lat /\ had.lon /\ ~a.overwrite) => last.why = "skip"
    /\ last.why = "done" =>
         /\ last.nEngine = 2
         /\ ~a.dry_run
         /\ fs.feat["lat"] = [img |-> engineCalls - 1, hdr |-> engineCalls - 1]
         /\ fs.feat["lon"] = [img |-> engineCalls, hdr |-> engineCalls]
    /\ last.nEngine \in 0..2
    /\ last.nEngine = 1 => last.ret = "raise"
    /\ a.dry_run => last.nEngine = 0

\* lat.img alone was there, left by a run that crashed between the two
\* engine runs; the call produced both again
C30_Witness ==
  /\ last.op = "get_S1_lat_lon"
  /\ last.why = "done"
  /\ last.args[2] = [lat |-> TRUE, lon |-> FALSE]
  /\ ~last.args[1].overwrite
  /\ fs.feat["lat"].img = engineCalls - 1
  /\ fs.feat["lon"].img = engineCalls

====
